---- MODULE Spec2Model ----
(***************************************************************************)
(* A model of zen/functions/utils.h of kaizen: repeat, random_int,         *)
(* generate_random, is_empty, sum and the LPS chain to_string / print /    *)
(* log.                                                                    *)
(*                                                                         *)
(* Text (zen::string, std::string_view, string literals, the characters    *)
(* written to std::cout) is a sequence of one-character strings.           *)
(* A value handed to to_string / print / log is a record [k, v]: k is the  *)
(* static category of its C++ type, v its content.                         *)
(***************************************************************************)
EXTENDS Integers, Sequences, FiniteSets

VARIABLES
    pc,     \* "call" while the call op(args) is still to be made, else "done"
    op,     \* the call: its name ("init" before any call)
    args,   \* the arguments of that call, as they were on entry
    ret,    \* what that call returned (<<>> for a void function)
    thrown, \* TRUE when that call left by an exception instead of returning
    out,    \* the characters written to std::cout so far
    c,      \* the container handed by reference to generate_random / sum
    gen     \* the static std::mt19937 of random_int: "unseeded" until the first draw

vars == <<pc, op, args, ret, thrown, out, c, gen>>

RECURSIVE NatToStr(_)
RECURSIVE to_string(_)
RECURSIVE ToStringLoop(_, _, _)
RECURSIVE ToStringLoop_NoSpace(_, _, _)
RECURSIVE to_string_variadic(_)
RECURSIVE to_string_variadic_trailing(_)
RECURSIVE print(_, _)
RECURSIVE print_trailing(_, _)
RECURSIVE repeat_sn_loop(_, _, _, _)
RECURSIVE repeat_ns_loop(_, _, _, _)
RECURSIVE SumLoop(_, _, _)
RECURSIVE JoinWith(_, _)
RECURSIVE Total(_)
RECURSIVE Copies(_, _)

-----------------------------------------------------------------------------
(* Bounds of the model.                                                    *)

MaxLen == 3        \* longest flat container handed to to_string
MaxInner == 2      \* longest inner container of a nested container
MaxOuter == 2      \* longest outer container of a nested container
MaxArgs == 4       \* most arguments of a variadic to_string call
MaxPrintArgs == 3  \* most arguments of a print or log call
MaxOut == 2        \* print and log are called while std::cout holds at most this much
MaxSize == 2       \* largest size handed to generate_random
MaxSumLen == 3     \* longest container handed to sum and is_empty
MaxRepeat == 3     \* largest count handed to repeat

SeqsUpTo(S, n) == UNION {[1..m -> S] : m \in 0..n}

-----------------------------------------------------------------------------
(* Values.                                                                 *)

IntV(n) == [k |-> "int", v |-> n]
BoolV(b) == [k |-> "bool", v |-> b]
CharV(ch) == [k |-> "char", v |-> ch]
StrV(s) == [k |-> "str", v |-> s]
ListV(xs) == [k |-> "list", v |-> xs]

Hello == <<"H", "e", "l", "l", "o">>
World == <<"W", "o", "r", "l", "d">>
NL == "\n"

IntVals == {-12, 0, 1, 2, 3, 42}
NestLeaves == {1, 2, 3}
TextVals == {<<>>, <<"a", "b", "c">>, <<"[", "a", ",", " ", "b", "]">>, <<" ">>}

Scalars ==
    {IntV(n) : n \in IntVals} \cup {BoolV(b) : b \in BOOLEAN}
        \cup {CharV(ch) : ch \in {"x", " ", NL}}

Texts == {StrV(s) : s \in TextVals \cup {Hello, World}}

FlatLists ==
    {ListV([i \in 1..Len(xs) |-> IntV(xs[i])]) : xs \in SeqsUpTo(IntVals, MaxLen)}
        \cup {ListV([i \in 1..Len(xs) |-> StrV(xs[i])]) : xs \in SeqsUpTo(TextVals, MaxLen)}
        \cup {ListV([i \in 1..Len(xs) |-> BoolV(xs[i])]) : xs \in SeqsUpTo(BOOLEAN, MaxLen)}

InnerLists ==
    {ListV([i \in 1..Len(xs) |-> IntV(xs[i])]) : xs \in SeqsUpTo(NestLeaves, MaxInner)}

NestedLists == {ListV(xs) : xs \in SeqsUpTo(InnerLists, MaxOuter)}

List12345 == ListV(<<IntV(1), IntV(2), IntV(3), IntV(4), IntV(5)>>)
List123 == ListV(<<IntV(1), IntV(2), IntV(3)>>)
Nested12_3 == ListV(<<ListV(<<IntV(1), IntV(2)>>), ListV(<<IntV(3)>>)>>)
Deep == ListV(<<ListV(<<ListV(<<IntV(1)>>), ListV(<<>>)>>), ListV(<<>>)>>)

Values == Scalars \cup Texts \cup FlatLists \cup NestedLists \cup {List12345, Deep}

ArgVals == {StrV(Hello), StrV(World), StrV(<<>>), IntV(42), List123, CharV(NL)}

ArgLists == SeqsUpTo(ArgVals, MaxArgs)

-----------------------------------------------------------------------------
(* The compile-time categories of a value's type.                          *)

\* is_string_like<T>(): a string object or a character sequence.
is_string_like(x) == x.k = "str"

\* is_iterable_v<T>: std::begin / std::end apply. A string has that shape too.
is_iterable(x) == x.k \in {"list", "str"}

\* What iterating from std::begin(x) to std::end(x) yields.
Elements(x) == IF x.k = "str" THEN [i \in 1..Len(x.v) |-> CharV(x.v[i])] ELSE x.v

-----------------------------------------------------------------------------
(* ss << x for a scalar: the stream's default formatting.                  *)

Digit(d) == <<"0", "1", "2", "3", "4", "5", "6", "7", "8", "9">>[d + 1]

NatToStr(n) == IF n < 10 THEN <<Digit(n)>> ELSE NatToStr(n \div 10) \o <<Digit(n % 10)>>

IntToStr(n) == IF n < 0 THEN <<"-">> \o NatToStr(-n) ELSE NatToStr(n)

\* An int in base 10, a bool as 1 or 0 (boolalpha is off), a char as itself.
StreamInsert(x) ==
    CASE x.k = "int" -> IntToStr(x.v)
      [] x.k = "bool" -> (IF x.v THEN <<"1">> ELSE <<"0">>)
      [] x.k = "char" -> <<x.v>>

-----------------------------------------------------------------------------
(* to_string.                                                              *)

ToStringLoop_NoSpace(xs, it, ss) ==
    IF it > Len(xs) THEN ss
    ELSE ToStringLoop_NoSpace(xs, it + 1, ss \o <<",">> \o to_string(xs[it]))

\* for (; it != std::end(x); ++it) ss << ", " << to_string(*it);
ToStringLoop(xs, it, ss) ==
    IF it > Len(xs) THEN ss
    ELSE ToStringLoop(xs, it + 1, ss \o <<",", " ">> \o to_string(xs[it]))

\* The iterable branch tried before the string-like one.
DispatchIterableFirst(x) ==
    IF is_iterable(x) THEN "iterable" ELSE IF is_string_like(x) THEN "string" ELSE "scalar"

\* The if constexpr chain of to_string: string-like, else iterable, else scalar.
Dispatch(x) ==
    IF is_string_like(x) THEN "string" ELSE IF is_iterable(x) THEN "iterable" ELSE "scalar"

to_string(x) ==
    CASE Dispatch(x) = "string" -> x.v
      [] Dispatch(x) = "iterable" ->
            LET xs == Elements(x)
                first == IF Len(xs) # 0 THEN <<"[">> \o to_string(xs[1]) ELSE <<"[">>
                it == IF Len(xs) # 0 THEN 2 ELSE 1
            IN  ToStringLoop(xs, it, first) \o <<"]">>
      [] Dispatch(x) = "scalar" -> StreamInsert(x)

to_string_variadic_trailing(xs) ==
    IF Len(xs) = 0 THEN <<>>
    ELSE to_string(Head(xs)) \o <<" ">> \o to_string_variadic_trailing(Tail(xs))

\* Overload resolution of to_string(v1, ..., vn): no argument is the base case,
\* one argument the single-value template (the more specialised one), two or
\* more to_string(x) + " " + to_string(args...).
to_string_variadic(xs) ==
    IF Len(xs) = 0 THEN <<>>
    ELSE IF Len(xs) = 1 THEN to_string(xs[1])
    ELSE to_string(Head(xs)) \o <<" ">> \o to_string_variadic(Tail(xs))

-----------------------------------------------------------------------------
(* print and log: each takes the content of std::cout and yields the new   *)
(* content.                                                                *)

\* template <class T> void print(const T& x): std::cout << to_string(x).
print_single(o, x) == o \o to_string(x)

\* A separator after every argument, the last one too.
print_trailing(o, xs) ==
    IF Len(xs) = 0 THEN o
    ELSE print_trailing(print_single(o, Head(xs)) \o <<" ">>, Tail(xs))

\* Overload resolution of print(v1, ..., vn): no argument is the empty base
\* case, one argument the single-value template, two or more the variadic
\* template: print(x); a space when args is not empty; print(args...).
print(o, xs) ==
    IF Len(xs) = 0 THEN o
    ELSE IF Len(xs) = 1 THEN print_single(o, xs[1])
    ELSE LET o1 == print_single(o, Head(xs))
             o2 == IF Len(Tail(xs)) # 0 THEN o1 \o <<" ">> ELSE o1
         IN  print(o2, Tail(xs))

\* Overload resolution of log(v1, ..., vn): no argument is the empty base
\* case, one argument print(x, '\n'), two or more print(x, args...) and then
\* std::endl.
log(o, xs) ==
    IF Len(xs) = 0 THEN o
    ELSE IF Len(xs) = 1 THEN print(o, <<xs[1], CharV(NL)>>)
    ELSE print(o, xs) \o <<NL>>

-----------------------------------------------------------------------------
(* repeat, in both argument orders.                                        *)

\* for (int i = 0; i < n; i++) result += s;   of repeat(s, n)
repeat_sn_loop(s, n, i, result) ==
    IF i < n THEN repeat_sn_loop(s, n, i + 1, result \o s) ELSE result

repeat_sn_inclusive(s, n) == repeat_sn_loop(s, n + 1, 0, <<>>)

repeat_sn(s, n) == repeat_sn_loop(s, n, 0, <<>>)

\* for (int i = 0; i < n; i++) result += s;   of repeat(n, s)
repeat_ns_loop(n, s, i, result) ==
    IF i < n THEN repeat_ns_loop(n, s, i + 1, result \o s) ELSE result

repeat_ns(n, s) == repeat_ns_loop(n, s, 0, <<>>)

-----------------------------------------------------------------------------
(* random_int and generate_random.                                         *)

RandLow == 10      \* random_int(10, 99) of generate_random
RandHigh == 99
DefaultMin == 0    \* the default arguments of random_int
DefaultMax == 10

\* The values of T the model lets an undefined draw take.
TValues == (DefaultMin - 4)..(DefaultMax + 2)

\* One past the upper bound as well.
uniform_int_distribution_wide(min, max) ==
    IF min <= max THEN min..(max + 1) ELSE TValues

\* What dis(gen) can return for std::uniform_int_distribution<T> dis(min, max):
\* any value of the closed range; with min > max the behaviour is undefined.
uniform_int_distribution(min, max) ==
    IF min <= max THEN min..max ELSE TValues

\* Every container generate_random can leave from c on entry: the early
\* resize of an empty one, then std::generate over the whole of it.
generate_random_always_resize(c0, size) ==
    [1..size -> uniform_int_distribution(RandLow, RandHigh)]

generate_random(c0, size) ==
    LET n == IF Len(c0) = 0 THEN size ELSE Len(c0)
    IN  [1..n -> uniform_int_distribution(RandLow, RandHigh)]

\* c.resize(size) takes a size_type: a negative int converts to a length no
\* container can hold, and resize throws.
ResizeThrows(c0, size) == Len(c0) = 0 /\ size < 0

-----------------------------------------------------------------------------
(* is_empty and sum.                                                       *)

is_empty(c0) == Len(c0) = 0

\* for (auto it = std::next(std::begin(c)); it != std::end(c); ++it) sum += *it;
SumLoop(c0, it, acc) ==
    IF it > Len(c0) THEN acc ELSE SumLoop(c0, it + 1, acc + c0[it])

\* The loop started at std::begin(c): the first element added twice.
sum_from_begin(c0) == IF Len(c0) = 0 THEN 0 ELSE SumLoop(c0, 1, c0[1])

sum(c0) == IF Len(c0) = 0 THEN 0 ELSE SumLoop(c0, 2, c0[1])

-----------------------------------------------------------------------------
(* The inputs of the calls.                                                *)

ToStringCalls == {<<x>> : x \in Values} \cup ArgLists

PrintVals == {StrV(Hello), StrV(<<>>), IntV(4), List12345, CharV(NL)}

PrintLists == SeqsUpTo(PrintVals, MaxPrintArgs)

RandArgs == {-3, DefaultMin, 1, 9, DefaultMax}

GenContainers == {<<>>, <<0>>, <<7, 100>>}

GenSizes == -1..MaxSize

SumVals == {-2, 0, 1, 3}

SumContainers == SeqsUpTo(SumVals, MaxSumLen)

RepeatStrs == {<<>>, <<"*">>, <<"a", "b">>}

RepeatCounts == -1..MaxRepeat

UtilCalls ==
    {<<"repeat_sn", <<s, n>>, <<>>>> : s \in RepeatStrs, n \in RepeatCounts}
        \cup {<<"repeat_ns", <<n, s>>, <<>>>> : n \in RepeatCounts, s \in RepeatStrs}
        \cup {<<"is_empty", <<c0>>, c0>> : c0 \in SumContainers}
        \cup {<<"sum", <<c0>>, c0>> : c0 \in SumContainers}

-----------------------------------------------------------------------------
(* The calls. to_string, repeat, is_empty, sum and generate_random are     *)
(* followed through one call on inputs drawn at the start (pc = "call",    *)
(* then "done"); print, log and random_int through any sequence of calls,  *)
(* since std::cout and the generator outlive a call.                       *)

\* A call of to_string with any arguments is about to be made.
Init ==
    /\ pc = "call"
    /\ op = "to_string"
    /\ args \in ToStringCalls
    /\ ret = <<>>
    /\ thrown = FALSE
    /\ out = <<>>
    /\ c = <<>>
    /\ gen = "unseeded"

\* Nothing has been called yet.
InitIdle ==
    /\ pc = "done"
    /\ op = "init"
    /\ args = <<>>
    /\ ret = <<>>
    /\ thrown = FALSE
    /\ out = <<>>
    /\ c = <<>>
    /\ gen = "unseeded"

\* A call of repeat, is_empty or sum is about to be made.
InitUtil ==
    /\ pc = "call"
    /\ \E call \in UtilCalls : op = call[1] /\ args = call[2] /\ c = call[3]
    /\ ret = <<>>
    /\ thrown = FALSE
    /\ out = <<>>
    /\ gen = "unseeded"

\* generate_random(c, size) is about to be called, before or after the
\* first random_int call of the process.
InitGen ==
    /\ pc = "call"
    /\ op = "generate_random"
    /\ c \in GenContainers
    /\ \E size \in GenSizes : args = <<c, size>>
    /\ ret = <<>>
    /\ thrown = FALSE
    /\ out = <<>>
    /\ gen \in {"unseeded", "seeded"}

\* to_string(x): the single-value template.
CallToString ==
    /\ pc = "call" /\ op = "to_string" /\ Len(args) = 1
    /\ ret' = to_string(args[1])
    /\ pc' = "done"
    /\ UNCHANGED <<op, args, thrown, out, c, gen>>

\* to_string(x, args...): the variadic template.
CallToStringVariadic ==
    /\ pc = "call" /\ op = "to_string" /\ Len(args) >= 2
    /\ ret' = to_string_variadic(args)
    /\ pc' = "done"
    /\ UNCHANGED <<op, args, thrown, out, c, gen>>

\* to_string(): the base case.
CallToStringBase ==
    /\ pc = "call" /\ op = "to_string" /\ Len(args) = 0
    /\ ret' = to_string_variadic(args)
    /\ pc' = "done"
    /\ UNCHANGED <<op, args, thrown, out, c, gen>>

CallPrint ==
    /\ Len(out) <= MaxOut
    /\ \E xs \in PrintLists :
        /\ op' = "print"
        /\ args' = xs
        /\ out' = print(out, xs)
        /\ ret' = <<>>
        /\ UNCHANGED <<pc, thrown, c, gen>>

CallLog ==
    /\ Len(out) <= MaxOut
    /\ \E xs \in PrintLists :
        /\ op' = "log"
        /\ args' = xs
        /\ out' = log(out, xs)
        /\ ret' = <<>>
        /\ UNCHANGED <<pc, thrown, c, gen>>

\* The static generator is seeded on the first call and kept from then on.
CallRandomInt ==
    \E min \in RandArgs, max \in RandArgs :
        \E r \in uniform_int_distribution(min, max) :
            /\ op' = "random_int"
            /\ args' = <<min, max>>
            /\ ret' = r
            /\ gen' = "seeded"
            /\ UNCHANGED <<pc, thrown, out, c>>

CallGenerateRandom ==
    /\ pc = "call" /\ op = "generate_random"
    /\ pc' = "done"
    /\ IF ResizeThrows(c, args[2])
       THEN /\ thrown' = TRUE
            /\ UNCHANGED <<c, gen>>
       ELSE /\ thrown' = FALSE
            /\ c' \in generate_random(c, args[2])
            /\ gen' = IF Len(c') = 0 THEN gen ELSE "seeded"
    /\ UNCHANGED <<op, args, ret, out>>

CallIsEmpty ==
    /\ pc = "call" /\ op = "is_empty"
    /\ ret' = is_empty(c)
    /\ pc' = "done"
    /\ UNCHANGED <<op, args, thrown, out, c, gen>>

CallSum ==
    /\ pc = "call" /\ op = "sum"
    /\ ret' = sum(c)
    /\ pc' = "done"
    /\ UNCHANGED <<op, args, thrown, out, c, gen>>

CallRepeatSN ==
    /\ pc = "call" /\ op = "repeat_sn"
    /\ ret' = repeat_sn(args[1], args[2])
    /\ pc' = "done"
    /\ UNCHANGED <<op, args, thrown, out, c, gen>>

CallRepeatNS ==
    /\ pc = "call" /\ op = "repeat_ns"
    /\ ret' = repeat_ns(args[1], args[2])
    /\ pc' = "done"
    /\ UNCHANGED <<op, args, thrown, out, c, gen>>

\* to_string in its three overloads.
Next == CallToString \/ CallToStringVariadic \/ CallToStringBase

Spec == Init /\ [][Next]_vars

\* print and log on std::cout.
NextIO == CallPrint \/ CallLog

SpecIO == InitIdle /\ [][NextIO]_vars

\* random_int on the shared generator.
NextRand == CallRandomInt

SpecRand == InitIdle /\ [][NextRand]_vars

\* generate_random.
NextGen == CallGenerateRandom

SpecGen == InitGen /\ [][NextGen]_vars

\* repeat, is_empty and sum.
NextUtil == CallRepeatSN \/ CallRepeatNS \/ CallIsEmpty \/ CallSum

SpecUtil == InitUtil /\ [][NextUtil]_vars

-----------------------------------------------------------------------------
(* What the properties are stated with.                                    *)

\* The texts of ss in order, sep between consecutive ones and nowhere else.
JoinWith(ss, sep) ==
    IF Len(ss) = 0 THEN <<>>
    ELSE IF Len(ss) = 1 THEN ss[1]
    ELSE ss[1] \o sep \o JoinWith(Tail(ss), sep)

Renderings(xs) == [i \in 1..Len(xs) |-> to_string(xs[i])]

\* The arithmetic sum of the elements of s.
Total(s) == IF Len(s) = 0 THEN 0 ELSE Total(Tail(s)) + Head(s)

\* s written n times.
Copies(s, n) == IF n <= 0 THEN <<>> ELSE s \o Copies(s, n - 1)

Text12345 ==
    <<"[", "1", ",", " ", "2", ",", " ", "3", ",", " ", "4", ",", " ", "5", "]">>

Text123 == <<"[", "1", ",", " ", "2", ",", " ", "3", "]">>

TextNested12_3 ==
    <<"[", "[", "1", ",", " ", "2", "]", ",", " ", "[", "3", "]", "]">>

TextBracketed == <<"[", "a", ",", " ", "b", "]">>

-----------------------------------------------------------------------------
(* Properties of to_string (under Spec).                                   *)

\* C1: to_string of an iterable that is not text-like is "[", then to_string
\* of each element in iteration order with exactly ", " between consecutive
\* elements, then "]": the empty sequence gives "[]", [1,2,3,4,5] gives
\* "[1, 2, 3, 4, 5]" and [[1,2],[3]] gives "[[1, 2], [3]]".
C1_IterableRendering ==
    (pc = "done" /\ Len(args) = 1 /\ args[1].k = "list") =>
        /\ ret = <<"[">> \o JoinWith(Renderings(args[1].v), <<",", " ">>) \o <<"]">>
        /\ args[1] = ListV(<<>>) => ret = <<"[", "]">>
        /\ args[1] = List12345 => ret = Text12345
        /\ args[1] = Nested12_3 => ret = TextNested12_3

C1_Witness ==
    /\ pc = "done"
    /\ args = <<Nested12_3>>
    /\ ret = TextNested12_3

\* C2: to_string of a text-like value returns it unchanged, never as a
\* bracketed list of its characters, and rendering the result of to_string
\* again as text changes nothing.
C2_TextIdentity ==
    (pc = "done" /\ Len(args) = 1) =>
        /\ args[1].k = "str" => ret = args[1].v
        /\ to_string(StrV(ret)) = ret
        /\ to_string(StrV(<<"a", "b", "c">>)) = <<"a", "b", "c">>

C2_Witness ==
    /\ pc = "done"
    /\ args = <<StrV(TextBracketed)>>
    /\ ret = TextBracketed

\* C3: the variadic to_string is the renderings of its arguments in argument
\* order with exactly one space between consecutive ones and none before or
\* after; no argument gives the empty text, one argument the single-argument
\* to_string.
C3_VariadicJoin ==
    pc = "done" =>
        /\ ret = JoinWith(Renderings(args), <<" ">>)
        /\ Len(args) = 0 => ret = <<>>
        /\ Len(args) = 1 => ret = to_string(args[1])
        /\ args = <<StrV(Hello), StrV(World), List123, IntV(42)>> =>
              ret = Hello \o <<" ">> \o World \o <<" ">> \o Text123 \o <<" ", "4", "2">>

C3_Witness ==
    /\ pc = "done"
    /\ args = <<StrV(Hello), StrV(World), List123, IntV(42)>>
    /\ Len(ret) = 24

-----------------------------------------------------------------------------
(* Properties of print and log (under SpecIO).                             *)

\* C4: print(v1, ..., vn) appends to standard output exactly
\* to_string(v1, ..., vn): no trailing separator, no newline, and nothing
\* when there is no argument.
C4_PrintAppendsToString ==
    [][op' = "print" => out' = out \o to_string_variadic(args')]_vars

C4_Witness ==
    /\ op = "print"
    /\ args = <<IntV(4), List12345>>
    /\ out = <<"4", "4", " ">> \o Text12345

\* C5: log(v1, ..., vn) appends exactly what print(v1, ..., vn) appends and
\* then one line terminator, with no space between them, for one argument
\* as for several.
C5_LogIsPrintThenNewline ==
    [][(op' = "log" /\ Len(args') >= 1) => out' = print(out, args') \o <<NL>>]_vars

-----------------------------------------------------------------------------
(* Properties of random_int (under SpecRand) and of generate_random (under  *)
(* SpecGen).                                                               *)

\* C6: random_int(min, max) with min < max returns r with min <= r < max:
\* max itself is never returned.
C6_HalfOpenRange ==
    (op = "random_int" /\ args[1] < args[2]) => (args[1] <= ret /\ ret < args[2])

\* C7: after any sequence of calls, random_int(min, max) with min <= max
\* returns r with min <= r <= max; the default call returns a value in 0..10.
C7_ClosedRange ==
    (op = "random_int" /\ args[1] <= args[2]) =>
        /\ args[1] <= ret /\ ret <= args[2]
        /\ args = <<DefaultMin, DefaultMax>> => ret \in 0..10

C7_Witness ==
    /\ op = "random_int"
    /\ gen = "seeded"
    /\ args = <<DefaultMin, DefaultMax>>
    /\ ret = 10

\* C8: after generate_random(c, size) has returned, c has length size when
\* it was empty on entry and its length on entry otherwise, and every element
\* of c is an integer in 10..99.
C8_GenerateRandom ==
    (pc = "done" /\ ~thrown) =>
        /\ Len(c) = (IF Len(args[1]) = 0 THEN args[2] ELSE Len(args[1]))
        /\ \A i \in 1..Len(c) : c[i] \in 10..99

C8_Witness ==
    /\ pc = "done"
    /\ ~thrown
    /\ args = <<<<7, 100>>, 1>>
    /\ c = <<99, 10>>

-----------------------------------------------------------------------------
(* Properties of sum and repeat (under SpecUtil).                          *)

\* C9: sum(c) is the zero value for an empty c and otherwise the first
\* element with every later element added once, the arithmetic sum of the
\* elements; c is left as it was.
C9_Sum ==
    (pc = "done" /\ op = "sum") =>
        /\ Len(args[1]) = 0 => ret = 0
        /\ ret = Total(args[1])
        /\ c = args[1]

C9_Witness ==
    /\ pc = "done" /\ op = "sum"
    /\ args = <<<<3, -2, 3>>>>
    /\ ret = 4

\* C10: repeat(s, n) is s written n times (length n * |s|) when n > 0 and
\* the empty text when n <= 0, and repeat(n, s) gives the same text.
C10_Repeat ==
    /\ (pc = "done" /\ op = "repeat_sn") =>
          /\ ret = Copies(args[1], args[2])
          /\ args[2] > 0 => Len(ret) = args[2] * Len(args[1])
          /\ args[2] <= 0 => ret = <<>>
          /\ ret = repeat_ns(args[2], args[1])
    /\ (pc = "done" /\ op = "repeat_ns") =>
          /\ ret = Copies(args[2], args[1])
          /\ ret = repeat_sn(args[2], args[1])

C10_Witness ==
    /\ pc = "done" /\ op = "repeat_sn"
    /\ args = <<<<"a", "b">>, 3>>
    /\ ret = <<"a", "b", "a", "b", "a", "b">>

====
